---- MODULE Spec2Model ----
(***************************************************************************)
(* The workshop MCP servers of deepl-mcp-server:                           *)
(*   workshops/jokes-python/jokes.py          (server "jokes")             *)
(*   workshops/jokes-python/tiny.py           (server "tiny")              *)
(*   workshops/deepl-simple-python/deepl-simple.py  (server "deepl")       *)
(* Each tool invocation is validated against the declared signature, runs  *)
(* its handler up to the outbound call, and resumes when the call returns  *)
(* or raises.  Exceptions keep their Python names; ErrorKind maps them to  *)
(* the three kinds of the error taxonomy.                                  *)
(***************************************************************************)
EXTENDS Integers, Sequences, FiniteSets, TLC

\* ------------------------------------------------------------ bounds
\* Number of invocation slots that may be in flight at the same time.
NumInv == 2

Inv == 1..NumInv

\* ------------------------------------------------- program constants
API_BASE_URL == "https://official-joke-api.appspot.com"
JOKE_TYPES == {"general", "knock-knock", "programming", "dad"}
CONSISTENT_JOKE == "What's brown and sticky?\nA stick! Ha ha ha ha"
TINY_JOKE == "What's brown and sticky? A stick!"
JOKE_ID_MIN == 1
JOKE_ID_MAX == 451
FORMALITY_TYPES == {"less", "more", "default", "prefer_less", "prefer_more"}
\* Python's None
None == "None"

\* ------------------------------------------------ results of a call
Return(v) == [t |-> "return", v |-> v]
Raise(e) == [t |-> "raise", v |-> e]
NoOutcome == [t |-> "none", v |-> ""]

\* ----------------------------------------------------- JSON values
JStr(s) == [t |-> "str", v |-> s]
JNull == [t |-> "null", v |-> ""]
JObj(f) == [t |-> "obj", v |-> f]
JArr(s) == [t |-> "arr", v |-> s]
\* a response body that is not JSON at all (HTML error page, empty body)
NotJson == [t |-> "notjson", v |-> ""]

\* json[key] with a string key
GetItemKey(json, key) ==
  CASE json.t = "obj" ->
         IF key \in DOMAIN json.v THEN Return(json.v[key]) ELSE Raise("KeyError")
    [] OTHER -> Raise("TypeError")

\* json[idx] with an integer index (0-based)
GetItemIdx(json, idx) ==
  CASE json.t = "arr" ->
         IF idx < Len(json.v) THEN Return(json.v[idx + 1]) ELSE Raise("IndexError")
    [] json.t = "obj" -> Raise("KeyError")
    [] OTHER -> Raise("TypeError")

\* "{x}" inside an f-string: str(x)
Format(x) ==
  CASE x.t = "str" -> x.v
    [] x.t = "null" -> "None"
    [] x.t = "obj" -> "{...}"
    [] x.t = "arr" -> "[...]"

\* mutant: json.get(key, "") in place of json[key]
extract_joke_defaulted(json) ==
  IF json.t # "obj" THEN Raise("TypeError")
  ELSE LET s == IF "setup" \in DOMAIN json.v THEN Format(json.v["setup"]) ELSE ""
           p == IF "punchline" \in DOMAIN json.v THEN Format(json.v["punchline"]) ELSE ""
       IN Return(s \o "\n" \o p)

\* f"{json['setup']}\n{json['punchline']}": setup is looked up first, then
\* punchline; the string exists only when both lookups returned.
extract_joke(json) ==
  LET s == GetItemKey(json, "setup")
      p == GetItemKey(json, "punchline")
  IN IF s.t = "raise" THEN s
     ELSE IF p.t = "raise" THEN p
     ELSE Return(Format(s.v) \o "\n" \o Format(p.v))

\* ------------------------------------------- jokes.py: the handlers
HttpGet(url) == [op |-> "GET", url |-> url]
HttpResponse(status, body) == [status |-> status, body |-> body]

\* mutant: lt in place of le
id_valid_off_by_one(id) == id >= JOKE_ID_MIN /\ id < JOKE_ID_MAX

\* Field(ge=1, le=451) on the id parameter
id_valid(id) == id >= JOKE_ID_MIN /\ id <= JOKE_ID_MAX

\* mutant: the parameter annotated str
joke_type_valid_any(joke_type) == TRUE

\* the Literal annotation of the joke_type parameter
joke_type_valid(joke_type) == joke_type \in JOKE_TYPES

\* mutant: the literal of tiny.py
get_consistent_joke_other == "What's brown and sticky? A stick!"

get_consistent_joke == CONSISTENT_JOKE

tiny_get_consistent_joke == TINY_JOKE

get_joke_request == HttpGet(API_BASE_URL \o "/random_joke")

get_joke_by_id_request(id) == HttpGet(API_BASE_URL \o "/jokes/" \o ToString(id))

get_joke_by_type_request(joke_type) ==
  HttpGet(API_BASE_URL \o "/jokes/" \o joke_type \o "/random")

\* mutant: response.raise_for_status() before the body is parsed
response_json_checked(response) ==
  IF response.status >= 400 THEN Raise("HTTPError")
  ELSE IF response.body.t = "notjson" THEN Raise("JSONDecodeError")
  ELSE Return(response.body)

\* response.json(): parses the body; the status code is not looked at
response_json(response) ==
  IF response.body.t = "notjson" THEN Raise("JSONDecodeError")
  ELSE Return(response.body)

\* get_joke and get_joke_by_id after requests.get(...) returned or raised
get_joke_resume(reply) ==
  IF reply.t = "raise" THEN reply
  ELSE LET json == response_json(reply.v)
       IN IF json.t = "raise" THEN json ELSE extract_joke(json.v)

\* mutant: json[-1] in place of json[0]
get_joke_by_type_resume_last(reply) ==
  IF reply.t = "raise" THEN reply
  ELSE LET json == response_json(reply.v)
       IN IF json.t = "raise" THEN json
          ELSE IF json.v.t # "arr" THEN GetItemIdx(json.v, 0)
          ELSE IF Len(json.v.v) = 0 THEN Raise("IndexError")
          ELSE extract_joke(json.v.v[Len(json.v.v)])

\* get_joke_by_type after requests.get(...) returned or raised
get_joke_by_type_resume(reply) ==
  IF reply.t = "raise" THEN reply
  ELSE LET json == response_json(reply.v)
       IN IF json.t = "raise" THEN json
          ELSE LET first == GetItemIdx(json.v, 0)
               IN IF first.t = "raise" THEN first ELSE extract_joke(first.v)

\* ------------------------------------ deepl-simple.py: the handlers
\* the Literal | None annotation of the formality parameter
formality_valid(formality) == formality = None \/ formality \in FORMALITY_TYPES

\* mutant: os.environ.get("DEEPL_API_KEY", "your-api-key")
environ_get_default(environ) ==
  IF environ.present THEN environ.value ELSE "your-api-key"

\* os.environ.get("DEEPL_API_KEY")
environ_get(environ) == IF environ.present THEN environ.value ELSE None

\* deepl.DeepLClient(DEEPL_API_KEY) at module level: the SDK's constructor
\* rejects an empty or missing auth key with ValueError
DeepLClient(auth_key) ==
  IF auth_key = None \/ auth_key = "" THEN Raise("ValueError")
  ELSE Return([auth_key |-> auth_key])

translate_dude == "dude"

get_source_languages_request == [op |-> "get_source_languages"]

get_target_languages_request == [op |-> "get_target_languages"]

\* vars(lang): the attributes of the SDK's Language object as a mapping
vars_of(lang) == lang.attrs

\* [vars(lang) for lang in deepl_client.get_..._languages()]
get_languages_resume(reply) ==
  IF reply.t = "raise" THEN reply
  ELSE Return([k \in DOMAIN reply.v |-> vars_of(reply.v[k])])

\* mutant: formality is not passed on
translate_text_request_no_formality(text, targetLang, formality) ==
  [op |-> "translate_text", text |-> text, target_lang |-> targetLang,
   formality |-> None]

translate_text_request(text, targetLang, formality) ==
  [op |-> "translate_text", text |-> text, target_lang |-> targetLang,
   formality |-> formality]

\* result.text of the SDK's TextResult
translate_text_resume(reply) ==
  IF reply.t = "raise" THEN reply ELSE Return(reply.v.text)

\* ---------------------------------------------------------- state
Servers == {"deepl", "jokes", "tiny"}

VARIABLES
  environ,  \* the process environment of the deepl server: DEEPL_API_KEY
  proc,     \* per server process: "loading", "serving" or "crashed"
  loop,     \* per server: the slot whose handler occupies the event loop, or 0
  inv       \* per slot: the tool invocation it carries

vars == <<environ, proc, loop, inv>>

Idle ==
  [pc |-> "idle", tool |-> "", args |-> <<>>, reqs |-> <<>>,
   reply |-> NoOutcome, out |-> NoOutcome]

\* invoke(): the arguments fail the declared signature; the handler is not called
Rejected(tool, args) ==
  [pc |-> "done", tool |-> tool, args |-> args, reqs |-> <<>>,
   reply |-> NoOutcome, out |-> Raise("ValidationError")]

\* a handler that returns without an outbound call
Returned(tool, args, v) ==
  [pc |-> "done", tool |-> tool, args |-> args, reqs |-> <<>>,
   reply |-> NoOutcome, out |-> Return(v)]

\* a handler that issued its outbound call and waits for it
Waiting(tool, args, req) ==
  [pc |-> "waiting", tool |-> tool, args |-> args, reqs |-> <<req>>,
   reply |-> NoOutcome, out |-> NoOutcome]

\* mutant: a failed outbound call is issued once more
Finish_retry(s, reply, out) ==
  IF reply.t = "raise" /\ Len(s.reqs) < 2
  THEN [s EXCEPT !.reqs = Append(@, @[1])]
  ELSE [s EXCEPT !.pc = "done", !.reply = reply, !.out = out]

\* the outbound call returned or raised: the handler runs to its end; nothing
\* catches an exception and the call is not issued again
Finish(s, reply, out) ==
  [s EXCEPT !.pc = "done", !.reply = reply, !.out = out]

\* the dispatcher takes a request for a tool of `server` on that server's
\* event loop
CanDispatch(i, server) ==
  /\ inv[i].pc = "idle"
  /\ proc[server] = "serving"
  /\ loop[server] = 0

Release(i) == [s \in Servers |-> IF loop[s] = i /\ inv'[i].pc = "done" THEN 0 ELSE loop[s]]

Init ==
  /\ environ \in {[present |-> TRUE, value |-> "test-key"],
                  [present |-> TRUE, value |-> ""],
                  [present |-> FALSE, value |-> ""]}
  /\ proc = [s \in Servers |-> IF s = "deepl" THEN "loading" ELSE "serving"]
  /\ loop = [s \in Servers |-> 0]
  /\ inv = [i \in Inv |-> Idle]

\* ------------------------------------------------- deepl-simple.py
\* module load up to mcp.run(): the client is built before the server exists
LoadModule ==
  /\ proc["deepl"] = "loading"
  /\ LET DEEPL_API_KEY == environ_get(environ)
         deepl_client == DeepLClient(DEEPL_API_KEY)
     IN proc' = [proc EXCEPT !["deepl"] =
                   IF deepl_client.t = "raise" THEN "crashed" ELSE "serving"]
  /\ UNCHANGED <<environ, loop, inv>>

Call_translate_dude(i) ==
  /\ CanDispatch(i, "deepl")
  /\ inv' = [inv EXCEPT ![i] = Returned("translate_dude", <<>>, translate_dude)]
  /\ UNCHANGED <<environ, proc, loop>>

\* async def: the handler runs on the event loop, and the SDK call in it is
\* a plain blocking call
Call_get_source_languages(i) ==
  /\ CanDispatch(i, "deepl")
  /\ inv' = [inv EXCEPT ![i] =
               Waiting("get_source_languages", <<>>, get_source_languages_request)]
  /\ loop' = [loop EXCEPT !["deepl"] = i]
  /\ UNCHANGED <<environ, proc>>

Resume_get_source_languages(i, reply) ==
  /\ inv[i].pc = "waiting" /\ inv[i].tool = "get_source_languages"
  /\ inv' = [inv EXCEPT ![i] = Finish(@, reply, get_languages_resume(reply))]
  /\ loop' = Release(i)
  /\ UNCHANGED <<environ, proc>>

\* def: the handler runs off the event loop
Call_get_target_languages(i) ==
  /\ CanDispatch(i, "deepl")
  /\ inv' = [inv EXCEPT ![i] =
               Waiting("get_target_languages", <<>>, get_target_languages_request)]
  /\ UNCHANGED <<environ, proc, loop>>

Resume_get_target_languages(i, reply) ==
  /\ inv[i].pc = "waiting" /\ inv[i].tool = "get_target_languages"
  /\ inv' = [inv EXCEPT ![i] = Finish(@, reply, get_languages_resume(reply))]
  /\ loop' = Release(i)
  /\ UNCHANGED <<environ, proc>>

Call_translate_text(i, text, targetLang, formality) ==
  /\ CanDispatch(i, "deepl")
  /\ LET args == [text |-> text, targetLang |-> targetLang, formality |-> formality]
     IN inv' = [inv EXCEPT ![i] =
                  IF formality_valid(formality)
                  THEN Waiting("translate_text", args,
                               translate_text_request(text, targetLang, formality))
                  ELSE Rejected("translate_text", args)]
  /\ UNCHANGED <<environ, proc, loop>>

Resume_translate_text(i, reply) ==
  /\ inv[i].pc = "waiting" /\ inv[i].tool = "translate_text"
  /\ inv' = [inv EXCEPT ![i] = Finish(@, reply, translate_text_resume(reply))]
  /\ loop' = Release(i)
  /\ UNCHANGED <<environ, proc>>

\* --------------------------------------------- jokes.py and tiny.py
Call_get_consistent_joke(i) ==
  /\ CanDispatch(i, "jokes")
  /\ inv' = [inv EXCEPT ![i] =
               Returned("get_consistent_joke", <<>>, get_consistent_joke)]
  /\ UNCHANGED <<environ, proc, loop>>

Call_tiny_get_consistent_joke(i) ==
  /\ CanDispatch(i, "tiny")
  /\ inv' = [inv EXCEPT ![i] =
               Returned("tiny_get_consistent_joke", <<>>, tiny_get_consistent_joke)]
  /\ UNCHANGED <<environ, proc, loop>>

Call_get_joke(i) ==
  /\ CanDispatch(i, "jokes")
  /\ inv' = [inv EXCEPT ![i] = Waiting("get_joke", <<>>, get_joke_request)]
  /\ UNCHANGED <<environ, proc, loop>>

Resume_get_joke(i, reply) ==
  /\ inv[i].pc = "waiting" /\ inv[i].tool = "get_joke"
  /\ inv' = [inv EXCEPT ![i] = Finish(@, reply, get_joke_resume(reply))]
  /\ loop' = Release(i)
  /\ UNCHANGED <<environ, proc>>

Call_get_joke_by_id(i, id) ==
  /\ CanDispatch(i, "jokes")
  /\ inv' = [inv EXCEPT ![i] =
               IF id_valid(id)
               THEN Waiting("get_joke_by_id", [id |-> id], get_joke_by_id_request(id))
               ELSE Rejected("get_joke_by_id", [id |-> id])]
  /\ UNCHANGED <<environ, proc, loop>>

Resume_get_joke_by_id(i, reply) ==
  /\ inv[i].pc = "waiting" /\ inv[i].tool = "get_joke_by_id"
  /\ inv' = [inv EXCEPT ![i] = Finish(@, reply, get_joke_resume(reply))]
  /\ loop' = Release(i)
  /\ UNCHANGED <<environ, proc>>

Call_get_joke_by_type(i, joke_type) ==
  /\ CanDispatch(i, "jokes")
  /\ inv' = [inv EXCEPT ![i] =
               IF joke_type_valid(joke_type)
               THEN Waiting("get_joke_by_type", [joke_type |-> joke_type],
                            get_joke_by_type_request(joke_type))
               ELSE Rejected("get_joke_by_type", [joke_type |-> joke_type])]
  /\ UNCHANGED <<environ, proc, loop>>

Resume_get_joke_by_type(i, reply) ==
  /\ inv[i].pc = "waiting" /\ inv[i].tool = "get_joke_by_type"
  /\ inv' = [inv EXCEPT ![i] = Finish(@, reply, get_joke_by_type_resume(reply))]
  /\ loop' = Release(i)
  /\ UNCHANGED <<environ, proc>>

\* the dispatcher has sent the result or the error; the slot is free for the
\* next request
Reset(i) ==
  /\ inv[i].pc = "done"
  /\ inv' = [inv EXCEPT ![i] = Idle]
  /\ UNCHANGED <<environ, proc, loop>>

\* ----------------------------------------------- inputs and replies
\* a joke object of the upstream API (its other fields are not used)
Joke(setup, punchline) ==
  JObj([type |-> JStr("general"), setup |-> JStr(setup), punchline |-> JStr(punchline)])

WhyBecause == Joke("Why?", "Because.")
SP == Joke("S", "P")
OnlySetup == JObj([type |-> JStr("general"), setup |-> JStr("Why?")])
OnlyPunchline == JObj([type |-> JStr("general"), punchline |-> JStr("Because.")])
\* what the upstream API sends with a 404
ErrorObject == JObj([type |-> JStr("error"), message |-> JStr("joke not found")])
NullPunchline == JObj([setup |-> JStr("S"), punchline |-> JNull])

\* (replies are kept in tuples: their values are of different shapes)
Bodies ==
  <<WhyBecause, OnlySetup, OnlyPunchline, ErrorObject, NullPunchline,
    JArr(<<SP>>), JArr(<<SP, WhyBecause>>), JArr(<<SP, OnlySetup>>),
    JArr(<<OnlySetup>>), JArr(<<OnlyPunchline>>), JArr(<<>>), NotJson>>

Statuses == <<200, 404, 500>>

\* requests.get(...) returns a response, whatever its status, or raises
HttpReplies ==
  <<Raise("ConnectionError")>> \o
  [k \in 1..(Len(Bodies) * Len(Statuses)) |->
     Return(HttpResponse(Statuses[((k - 1) % Len(Statuses)) + 1],
                         Bodies[((k - 1) \div Len(Statuses)) + 1]))]

IdInputs == {-1, 0, 1, 2, 450, 451, 452, 1000}

TypeInputs == JOKE_TYPES \cup {"pun", "", "Dad", "general "}

Language(code, name) == [cls |-> "Language", attrs |-> [code |-> code, name |-> name]]

\* the SDK call returns the languages or raises
LanguageReplies ==
  <<Raise("DeepLException"),
    Return(<<>>),
    Return(<<Language("en", "English")>>),
    Return(<<Language("de", "German"), Language("en", "English")>>)>>

TextResult(text, detected_source_lang, billed_characters) ==
  [text |-> text, detected_source_lang |-> detected_source_lang,
   billed_characters |-> billed_characters]

\* the SDK call returns a TextResult or raises
TranslateReplies ==
  <<Raise("DeepLException"),
    Return(TextResult("Hallo", "EN", 5)),
    Return(TextResult("Hello", "DE", 5)),
    Return(TextResult("", "EN", 0))>>

TextInputs == {"Hello", ""}
LangInputs == {"de", "en-US", "xx"}
FormalityInputs == {None, "more", "prefer_less", "formal", ""}

\* the replies of the concurrent specification: one of each shape
ConcHttpReplies ==
  <<Raise("ConnectionError"),
    Return(HttpResponse(200, WhyBecause)),
    Return(HttpResponse(404, ErrorObject)),
    Return(HttpResponse(200, JArr(<<SP>>)))>>
ConcLanguageReplies == <<Raise("DeepLException"), Return(<<Language("en", "English")>>)>>
ConcTranslateReplies == <<Raise("DeepLException"), Return(TextResult("Hallo", "EN", 5))>>
ConcIdInputs == {0, 1}
ConcTypeInputs == {"dad", "pun"}
ConcFormalityInputs == {None, "formal"}

\* ------------------------------------------------- specifications
\* One invocation at a time, over the full sets of inputs and replies.
Next ==
  \/ LoadModule
  \/ \E i \in {1} :
       \/ Call_translate_dude(i)
       \/ Call_get_source_languages(i)
       \/ \E r \in DOMAIN LanguageReplies : Resume_get_source_languages(i, LanguageReplies[r])
       \/ Call_get_target_languages(i)
       \/ \E r \in DOMAIN LanguageReplies : Resume_get_target_languages(i, LanguageReplies[r])
       \/ \E text \in TextInputs, targetLang \in LangInputs, f \in FormalityInputs :
            Call_translate_text(i, text, targetLang, f)
       \/ \E r \in DOMAIN TranslateReplies : Resume_translate_text(i, TranslateReplies[r])
       \/ Call_get_consistent_joke(i)
       \/ Call_tiny_get_consistent_joke(i)
       \/ Call_get_joke(i)
       \/ \E r \in DOMAIN HttpReplies : Resume_get_joke(i, HttpReplies[r])
       \/ \E id \in IdInputs : Call_get_joke_by_id(i, id)
       \/ \E r \in DOMAIN HttpReplies : Resume_get_joke_by_id(i, HttpReplies[r])
       \/ \E t \in TypeInputs : Call_get_joke_by_type(i, t)
       \/ \E r \in DOMAIN HttpReplies : Resume_get_joke_by_type(i, HttpReplies[r])
       \/ Reset(i)

Spec == Init /\ [][Next]_vars

\* Invocations in flight in every slot at once, in any interleaving.
NextConc ==
  \/ LoadModule
  \/ \E i \in Inv :
       \/ Call_translate_dude(i)
       \/ Call_get_source_languages(i)
       \/ \E r \in DOMAIN ConcLanguageReplies : Resume_get_source_languages(i, ConcLanguageReplies[r])
       \/ Call_get_target_languages(i)
       \/ \E r \in DOMAIN ConcLanguageReplies : Resume_get_target_languages(i, ConcLanguageReplies[r])
       \/ \E f \in ConcFormalityInputs : Call_translate_text(i, "Hello", "de", f)
       \/ \E r \in DOMAIN ConcTranslateReplies : Resume_translate_text(i, ConcTranslateReplies[r])
       \/ Call_get_consistent_joke(i)
       \/ Call_tiny_get_consistent_joke(i)
       \/ Call_get_joke(i)
       \/ \E r \in DOMAIN ConcHttpReplies : Resume_get_joke(i, ConcHttpReplies[r])
       \/ \E id \in ConcIdInputs : Call_get_joke_by_id(i, id)
       \/ \E r \in DOMAIN ConcHttpReplies : Resume_get_joke_by_id(i, ConcHttpReplies[r])
       \/ \E t \in ConcTypeInputs : Call_get_joke_by_type(i, t)
       \/ \E r \in DOMAIN ConcHttpReplies : Resume_get_joke_by_type(i, ConcHttpReplies[r])
       \/ Reset(i)

SpecConc == Init /\ [][NextConc]_vars

\* ---------------------------------------------------- properties
\* The kinds of the error taxonomy, by the exception the code raises.
ErrorKind(exc) ==
  CASE exc = "ValidationError" -> "InvalidArgument"
    [] exc \in {"ConnectionError", "HTTPError", "DeepLException"} -> "UpstreamError"
    [] exc \in {"KeyError", "TypeError", "IndexError", "JSONDecodeError"} ->
         "MalformedResponse"
    [] OTHER -> "Other"

Done(i) == inv[i].pc = "done"
FailsWith(i, kind) ==
  Done(i) /\ inv[i].out.t = "raise" /\ ErrorKind(inv[i].out.v) = kind
ReturnsValue(i) == Done(i) /\ inv[i].out.t = "return"

JokeHttpTools == {"get_joke", "get_joke_by_id", "get_joke_by_type"}

\* the invocation got an HTTP response (of any status) whose body is JSON
GotJson(i) ==
  /\ inv[i].tool \in JokeHttpTools
  /\ Done(i)
  /\ inv[i].reply.t = "return"
  /\ inv[i].reply.v.body.t # "notjson"

HasItem(i) ==
  inv[i].tool = "get_joke_by_type" =>
    inv[i].reply.v.body.t = "arr" /\ Len(inv[i].reply.v.body.v) >= 1

\* the JSON value the joke is extracted from: the body, or its first element
Item(i) ==
  IF inv[i].tool = "get_joke_by_type"
  THEN inv[i].reply.v.body.v[1]
  ELSE inv[i].reply.v.body

HasField(json, key) == json.t = "obj" /\ key \in DOMAIN json.v
LacksField(json) == ~HasField(json, "setup") \/ ~HasField(json, "punchline")
WellFormed(json) ==
  /\ HasField(json, "setup") /\ json.v["setup"].t = "str"
  /\ HasField(json, "punchline") /\ json.v["punchline"].t = "str"

NonSuccess(status) == status < 200 \/ status > 299

\* C1: an id outside [1, 451] is rejected with InvalidArgument and no request
\* is issued; an id inside the range, the bounds included, passes validation
\* and exactly GET {base_url}/jokes/{id} is issued.
C1_IdRange ==
  \A i \in Inv :
    inv[i].tool = "get_joke_by_id" =>
      IF inv[i].args.id < 1 \/ inv[i].args.id > 451
      THEN FailsWith(i, "InvalidArgument") /\ inv[i].reqs = <<>>
      ELSE /\ ~FailsWith(i, "InvalidArgument")
           /\ Len(inv[i].reqs) = 1
           /\ inv[i].reqs[1].op = "GET"
           /\ inv[i].reqs[1].url =
                "https://official-joke-api.appspot.com/jokes/" \o ToString(inv[i].args.id)

C1_Witness ==
  \E i \in Inv :
    /\ inv[i].tool = "get_joke_by_id" /\ inv[i].args.id = 452
    /\ FailsWith(i, "InvalidArgument") /\ inv[i].reqs = <<>>

\* C2: a joke_type outside {general, knock-knock, programming, dad} is
\* rejected with InvalidArgument and no request is issued.
C2_TypeEnum ==
  \A i \in Inv :
    (/\ inv[i].tool = "get_joke_by_type"
     /\ inv[i].args.joke_type \notin {"general", "knock-knock", "programming", "dad"})
      => FailsWith(i, "InvalidArgument") /\ inv[i].reqs = <<>>

C2_Witness ==
  \E i \in Inv :
    /\ inv[i].tool = "get_joke_by_type" /\ inv[i].args.joke_type = "pun"
    /\ FailsWith(i, "InvalidArgument") /\ inv[i].reqs = <<>>

\* C3: when the JSON the joke is extracted from lacks setup or punchline, the
\* invocation ends in MalformedResponse and returns no string.
C3_MissingField ==
  \A i \in Inv :
    (GotJson(i) /\ HasItem(i) /\ LacksField(Item(i)))
      => FailsWith(i, "MalformedResponse") /\ ~ReturnsValue(i)

C3_Witness ==
  \E i \in Inv :
    /\ inv[i].tool = "get_joke" /\ GotJson(i)
    /\ HasField(Item(i), "setup") /\ ~HasField(Item(i), "punchline")
    /\ FailsWith(i, "MalformedResponse")

\* C4 as stated: a non-2xx response of a joke endpoint ends the invocation in
\* UpstreamError, whatever its body.
C4_NonSuccessIsUpstreamError ==
  \A i \in Inv :
    (/\ inv[i].tool \in JokeHttpTools /\ Done(i)
     /\ inv[i].reply.t = "return" /\ NonSuccess(inv[i].reply.v.status))
      => FailsWith(i, "UpstreamError")

\* C4 as amended: the status of the response is never looked at.  With a
\* non-2xx response whose body is JSON the invocation ends in
\* MalformedResponse when the extracted value lacks setup or punchline and
\* returns the joke when it is well-formed; it ends in UpstreamError only when
\* the GET itself raised.
C4_StatusIgnored ==
  \A i \in Inv :
    /\ (inv[i].tool \in JokeHttpTools /\ Done(i) /\ inv[i].reply.t = "raise")
         => FailsWith(i, "UpstreamError")
    /\ (GotJson(i) /\ NonSuccess(inv[i].reply.v.status))
         => /\ ~FailsWith(i, "UpstreamError")
            /\ (HasItem(i) /\ LacksField(Item(i))) => FailsWith(i, "MalformedResponse")
            /\ (HasItem(i) /\ WellFormed(Item(i))) => ReturnsValue(i)

C4_Witness ==
  \E i \in Inv :
    /\ inv[i].tool = "get_joke_by_id" /\ GotJson(i)
    /\ inv[i].reply.v.status = 404 /\ LacksField(Item(i))
    /\ FailsWith(i, "MalformedResponse")

\* C5 as stated: without the API key in the environment the translation
\* server still starts.
C5_StartsWithoutKey ==
  ~environ.present => proc["deepl"] # "crashed"

\* C5 as amended: without the API key in the environment the translation
\* server never serves: building the client at module load raises, before any
\* tool is registered, and no tool of it is ever invoked, translate_dude
\* included.
C5_NoKeyNoServer ==
  ~environ.present =>
    /\ proc["deepl"] # "serving"
    /\ \A i \in Inv :
         inv[i].tool \notin {"translate_dude", "get_source_languages",
                             "get_target_languages", "translate_text"}

C5_Witness ==
  ~environ.present /\ proc["deepl"] = "crashed"

\* C6: while one invocation waits on its outbound call, any other invocation
\* can be dispatched on every serving server: the pending call blocks nobody.
C6_PendingCallBlocksNobody ==
  \A i \in Inv, j \in Inv, server \in Servers :
    (/\ i # j
     /\ inv[i].pc = "waiting"
     /\ inv[j].pc = "idle"
     /\ proc[server] = "serving")
      => CanDispatch(j, server)

\* C7: translate_text makes one SDK call with the given text, target_lang =
\* targetLang and the given formality (None when absent), and returns the
\* text field of the SDK's result.
C7_TranslateForwards ==
  \A i \in Inv :
    (inv[i].tool = "translate_text" /\ ~FailsWith(i, "InvalidArgument")) =>
      /\ Len(inv[i].reqs) = 1
      /\ inv[i].reqs[1].op = "translate_text"
      /\ inv[i].reqs[1].text = inv[i].args.text
      /\ inv[i].reqs[1].target_lang = inv[i].args.targetLang
      /\ inv[i].reqs[1].formality = inv[i].args.formality
      /\ (Done(i) /\ inv[i].reply.t = "return") =>
           /\ inv[i].out.t = "return"
           /\ inv[i].out.v = inv[i].reply.v.text

C7_Witness ==
  \E i \in Inv :
    /\ inv[i].tool = "translate_text" /\ Done(i)
    /\ inv[i].args.text = "Hello" /\ inv[i].args.targetLang = "de"
    /\ inv[i].args.formality = "more"
    /\ inv[i].reqs[1].formality = "more"
    /\ inv[i].reply.t = "return" /\ inv[i].reply.v.text = "Hallo"
    /\ inv[i].out.t = "return" /\ inv[i].out.v = "Hallo"

\* C8: for a well-formed response the result is setup, a newline, punchline
\* of the returned object (get_joke, get_joke_by_id) or of the first element
\* of the returned sequence (get_joke_by_type), whatever follows the first.
C8_SetupNewlinePunchline ==
  \A i \in Inv :
    (GotJson(i) /\ HasItem(i) /\ WellFormed(Item(i))) =>
      /\ inv[i].out.t = "return"
      /\ inv[i].out.v = Item(i).v["setup"].v \o "\n" \o Item(i).v["punchline"].v

C8_Witness ==
  \E i \in Inv :
    /\ inv[i].tool = "get_joke_by_type" /\ GotJson(i) /\ HasItem(i)
    /\ Len(inv[i].reply.v.body.v) = 2
    /\ inv[i].reply.v.body.v[2].v["setup"].v # Item(i).v["setup"].v
    /\ inv[i].out.t = "return"
    /\ inv[i].out.v = "S\nP"

\* C9: in any interleaving translate_dude returns "dude" and
\* get_consistent_joke returns its one literal, and neither issues a request.
C9_Constants ==
  \A i \in Inv :
    /\ inv[i].tool = "translate_dude" =>
         /\ Done(i) /\ inv[i].reqs = <<>>
         /\ inv[i].out.t = "return" /\ inv[i].out.v = "dude"
    /\ inv[i].tool = "get_consistent_joke" =>
         /\ Done(i) /\ inv[i].reqs = <<>>
         /\ inv[i].out.t = "return"
         /\ inv[i].out.v = "What's brown and sticky?\nA stick! Ha ha ha ha"
    /\ inv[i].tool = "tiny_get_consistent_joke" =>
         /\ Done(i) /\ inv[i].reqs = <<>>
         /\ inv[i].out.t = "return"
         /\ inv[i].out.v = "What's brown and sticky? A stick!"

C9_Witness ==
  \E i \in Inv, j \in Inv :
    /\ i # j
    /\ inv[i].tool = "get_consistent_joke" /\ ReturnsValue(i)
    /\ inv[j].tool = "get_joke" /\ inv[j].pc = "waiting"

\* C10: an invocation issues at most one outbound request; when the request
\* fails the invocation ends with that failure and the request is not issued
\* again.
C10_NoRetryNoFallback ==
  \A i \in Inv :
    /\ Len(inv[i].reqs) <= 1
    /\ inv[i].pc = "waiting" => Len(inv[i].reqs) = 1
    /\ (Done(i) /\ inv[i].reply.t = "raise") =>
         /\ Len(inv[i].reqs) = 1
         /\ inv[i].out.t = "raise"
         /\ inv[i].out.v = inv[i].reply.v

C10_Witness ==
  \E i \in Inv, j \in Inv :
    /\ i # j
    /\ inv[i].tool = "translate_text" /\ Done(i) /\ inv[i].reply.t = "raise"
    /\ inv[i].out.t = "raise"
    /\ inv[j].tool = "get_joke" /\ Done(j) /\ inv[j].reply.t = "raise"
    /\ inv[j].out.t = "raise"

====
